---- MODULE Spec2Model ----
(***************************************************************************)
(* Model of the report-to-HTML converter (src/md_to_html.py), the report   *)
(* printer (src/read_markdown.py) and the command line (src/main.py).      *)
(*                                                                         *)
(* Text is modelled character by character: a Python str is a TLA+ string, *)
(* and the str / re / html library calls the code makes are operators      *)
(* that compute what the library computes (0-based indices, -1 for "not    *)
(* found", as in Python).  A Python list is a sequence, a dict a record.   *)
(***************************************************************************)
EXTENDS Integers, Sequences, FiniteSets, TLC

VARIABLES
    pc,                  \* where the running call is
    input_file,          \* convert_text_file_to_html: the input path
    output_file,         \* convert_*: the output_file argument
    content,             \* the text handed to the parser
    entry_lines,         \* parse_file_entry: lines
    entry_next,          \* parse_file_entry: the index of the line the loop is at
    in_preview_section,  \* parse_file_entry: in_preview_section
    file_info,           \* parse_file_entry: file_info
    file_entries,        \* the list parse_text_content returned
    exc,                 \* the exception that ended the call, "none" when none did
    html_doc,            \* the document generate_html returned, as its pieces
    stats,               \* generate_html: total_files, total_chars, total_lines
    fs,                  \* the output files written: a set of [path, doc]
    ret,                 \* what convert_* returned
    given,               \* what the input was made of: [fn, parts]
    argv,                \* main: sys.argv
    directory,           \* main: directory
    md_files,            \* main: md_files
    printed              \* main: the message it ended with, "none" when none yet

vars == <<pc, input_file, output_file, content, entry_lines, entry_next,
          in_preview_section, file_info, file_entries, exc, html_doc, stats, fs,
          ret, given, argv, directory, md_files, printed>>

\* the variables of the loop of parse_file_entry
entry_vars == <<entry_lines, entry_next, in_preview_section, file_info>>

\* the variables of main
main_vars == <<argv, directory, md_files, printed>>

\* the arguments of convert_*
call_vars == <<input_file, output_file>>

\* what generate_html and the write leave behind
out_vars == <<html_doc, stats, fs, ret>>

-----------------------------------------------------------------------------
(* Python's str methods.  Scans are written with bounded quantifiers and   *)
(* the loops over a sequence split it in halves, so that the evaluation    *)
(* never nests deeper than the logarithm of the length; the values are     *)
(* those of the left-to-right loops.                                       *)

Whitespace == {" ", "\t", "\n", "\r"}

Digits == {"0", "1", "2", "3", "4", "5", "6", "7", "8", "9"}

Min(S) == CHOOSE x \in S : \A y \in S : x <= y

Max(S) == CHOOSE x \in S : \A y \in S : x >= y

char_at(s, i) == SubSeq(s, i + 1, i + 1)

\* s[i:]
slice_from(s, i) == SubSeq(s, i + 1, Len(s))

\* s[:i]
slice_to(s, i) == SubSeq(s, 1, i)

str_startswith(s, prefix) ==
    Len(s) >= Len(prefix) /\ SubSeq(s, 1, Len(prefix)) = prefix

\* the indices where sub occurs in s
occurrences(s, sub) ==
    { i \in 0..(Len(s) - Len(sub)) : SubSeq(s, i + 1, i + Len(sub)) = sub }

lowest(hits) == IF hits = {} THEN -1 ELSE Min(hits)

highest(hits) == IF hits = {} THEN -1 ELSE Max(hits)

\* s.find(sub): the lowest index where sub starts, -1 when there is none
str_find(s, sub) == lowest(occurrences(s, sub))

\* s.rfind(sub)
str_rfind(s, sub) == highest(occurrences(s, sub))

\* sub in s
str_contains(s, sub) == occurrences(s, sub) # {}

\* the index of the first character of s from index i on that is not in
\* class, Len(s) when there is none
run_end(s, i, class) ==
    Min({ j \in i..Len(s) : j = Len(s) \/ char_at(s, j) \notin class })

\* the index after the last character of s that is not whitespace, 0 when
\* there is none
strip_end(s) ==
    Max({ j \in 0..Len(s) : j = 0 \/ char_at(s, j - 1) \notin Whitespace })

str_lstrip(s) == slice_from(s, run_end(s, 0, Whitespace))

str_rstrip(s) == slice_to(s, strip_end(s))

\* s.strip()
str_strip(s) == str_rstrip(str_lstrip(s))

RECURSIVE str_concat(_)
\* "".join(parts)
str_concat(parts) ==
    IF Len(parts) = 0 THEN ""
    ELSE IF Len(parts) = 1 THEN parts[1]
    ELSE str_concat(SubSeq(parts, 1, Len(parts) \div 2))
         \o str_concat(SubSeq(parts, Len(parts) \div 2 + 1, Len(parts)))

RECURSIVE seq_concat(_)
\* the concatenation of a sequence of sequences
seq_concat(parts) ==
    IF Len(parts) = 0 THEN << >>
    ELSE IF Len(parts) = 1 THEN parts[1]
    ELSE seq_concat(SubSeq(parts, 1, Len(parts) \div 2))
         \o seq_concat(SubSeq(parts, Len(parts) \div 2 + 1, Len(parts)))

RECURSIVE int_sum(_)
\* sum(numbers)
int_sum(numbers) ==
    IF Len(numbers) = 0 THEN 0
    ELSE IF Len(numbers) = 1 THEN numbers[1]
    ELSE int_sum(SubSeq(numbers, 1, Len(numbers) \div 2))
         + int_sum(SubSeq(numbers, Len(numbers) \div 2 + 1, Len(numbers)))

\* sep.join(parts)
str_join(parts, sep) ==
    str_concat([ i \in 1..Len(parts) |->
                   IF i = 1 THEN parts[i] ELSE sep \o parts[i] ])

RECURSIVE replace_at(_, _, _, _)
\* s.replace(old, new), i being s.find(old): one step for each occurrence
replace_at(s, old, new, i) ==
    IF i = -1 THEN s
    ELSE slice_to(s, i) \o new
         \o replace_at(slice_from(s, i + Len(old)), old, new,
                       str_find(slice_from(s, i + Len(old)), old))

\* s.replace(old, new): every non-overlapping occurrence, left to right
str_replace(s, old, new) == replace_at(s, old, new, str_find(s, old))

\* the k-th lowest member of a set of numbers, k from 1
kth(hits, k) == CHOOSE p \in hits : Cardinality({ q \in hits : q < p }) = k - 1

\* the k-th field of s cut at the indices in cuts, a separator being one
\* character
field(s, cuts, k) ==
    SubSeq(s,
           IF k = 1 THEN 1 ELSE kth(cuts, k - 1) + 2,
           IF k = Cardinality(cuts) + 1 THEN Len(s) ELSE kth(cuts, k))

split_at(s, cuts) == [ k \in 1..(Cardinality(cuts) + 1) |-> field(s, cuts, k) ]

\* s.split(sep) for a separator of one character: a list of at least one string
str_split(s, sep) == split_at(s, occurrences(s, sep))

split1_at(s, sep, i) ==
    IF i = -1 THEN <<s>>
    ELSE <<slice_to(s, i), slice_from(s, i + Len(sep))>>

\* s.split(sep, 1)
str_split1(s, sep) == split1_at(s, sep, str_find(s, sep))

\* the indices where a word of s starts
word_starts(s) ==
    { i \in 0..(Len(s) - 1) :
        /\ char_at(s, i) \notin Whitespace
        /\ (i = 0 \/ char_at(s, i - 1) \in Whitespace) }

\* the index after the word of s that starts at index i
word_end(s, i) ==
    Min({ j \in i..Len(s) : j = Len(s) \/ char_at(s, j) \in Whitespace })

words_at(s, starts) ==
    [ k \in 1..Cardinality(starts) |->
        SubSeq(s, kth(starts, k) + 1, word_end(s, kth(starts, k))) ]

\* s.split(): the whitespace-separated words, none of them empty
str_split_ws(s) == words_at(s, word_starts(s))

\* the length of the run of decimal digits of s from index i on
digit_run(s, i) == IF i >= Len(s) THEN 0 ELSE run_end(s, i, Digits) - i

digit_value(c) == CHOOSE d \in 0..9 : char_at("0123456789", d) = c

RECURSIVE digits_value(_)
\* the number a string of digits writes: one step for each digit
digits_value(s) ==
    IF s = "" THEN 0
    ELSE 10 * digits_value(slice_to(s, Len(s) - 1))
         + digit_value(char_at(s, Len(s) - 1))

int_of(sign, body) ==
    IF body # "" /\ digit_run(body, 0) = Len(body)
    THEN [ok |-> TRUE,
          val |-> IF sign = "-" THEN 0 - digits_value(body) ELSE digits_value(body)]
    ELSE [ok |-> FALSE, val |-> 0]

int_stripped(t) ==
    IF t # "" /\ char_at(t, 0) \in {"+", "-"}
    THEN int_of(char_at(t, 0), slice_from(t, 1))
    ELSE int_of("+", t)

\* int(s): surrounding whitespace and one sign are allowed, then digits only;
\* ok is FALSE where int() raises ValueError
int_parse(s) == int_stripped(str_strip(s))

RECURSIVE int_str(_)
\* str(n) for n >= 0: one step for each digit
int_str(n) ==
    IF n < 10 THEN char_at("0123456789", n)
    ELSE int_str(n \div 10) \o char_at("0123456789", n % 10)

-----------------------------------------------------------------------------
(* The two regular expressions of parse_file_entry, and html.escape        *)

digits_then_colon(t, d) == d >= 1 /\ d < Len(t) /\ char_at(t, d) = ":"

\* re.match(r'^\s*\d+:', line): whitespace, one or more digits, a colon.  The
\* three character classes are disjoint, so the greedy match is the only one.
re_match_preview(line) ==
    digits_then_colon(str_lstrip(line), digit_run(str_lstrip(line), 0))

\* whether the pattern \((\d+) more lines\) matches at index i, d being the
\* number of digits after index i
more_matches_at(line, i, d) ==
    /\ char_at(line, i) = "("
    /\ d >= 1
    /\ str_startswith(slice_from(line, i + 1 + d), " more lines)")

more_match_at(line, i) ==
    IF i = -1 THEN [found |-> FALSE, group1 |-> ""]
    ELSE [found |-> TRUE,
          group1 |-> SubSeq(line, i + 2, i + 1 + digit_run(line, i + 1))]

\* re.search(r'\((\d+) more lines\)', line): the leftmost match and its group
re_search_more(line) ==
    more_match_at(line,
        lowest({ i \in 0..(Len(line) - 1) :
                   more_matches_at(line, i, digit_run(line, i + 1)) }))

escape_char(c) ==
    CASE c = "&" -> "&amp;"
      [] c = "<" -> "&lt;"
      [] c = ">" -> "&gt;"
      [] c = "\"" -> "&quot;"
      [] c = "'" -> "&#x27;"
      [] OTHER -> c

\* html.escape(s), quote=True
html_escape(s) == str_concat([ i \in 1..Len(s) |-> escape_char(SubSeq(s, i, i)) ])

-----------------------------------------------------------------------------
(* parse_file_entry                                                        *)

\* file_info as initialised
new_file_info ==
    [filename |-> "", size |-> "", lines_count |-> "",
     preview_lines |-> <<>>, remaining_lines |-> 0]

\* line 57: a separator line
is_separator(line) == str_startswith(str_strip(line), "--")

\* line 61: the filename a 'File: ' line gives
filename_of(line) == str_strip(str_replace(line, "File: ", ""))

\* lines 67-68: the two labels from parts; parts[1] of a one-element list is
\* an IndexError
size_parts(st, parts) ==
    IF Len(parts) < 2 THEN [st EXCEPT !.exc = "IndexError"]
    ELSE [st EXCEPT !.info.size = str_strip(parts[1 + 0]),
                    !.info.lines_count = str_strip(parts[1 + 1])]

\* lines 65-68
size_labels(st, size_info) ==
    IF str_contains(size_info, "characters") /\ str_contains(size_info, "lines")
    THEN size_parts(st, str_split(size_info, ","))
    ELSE st

\* lines 64-68: the 'Size: ' branch on the loop state st
size_branch(st, line) ==
    size_labels(st, str_strip(str_replace(line, "Size: ", "")))

\* line 69: the preview heading
is_preview_heading(line) == str_startswith(str_strip(line), "Preview (first")

\* line 73: a preview line, while in the preview section
is_preview_line(st, line) == st.in_preview_section /\ re_match_preview(line)

\* line 76: a 'more lines' trailer
is_more_lines(line) ==
    str_contains(line, "... (") /\ str_contains(line, "more lines)")

\* the trailer sets the count and the preview section stays open
more_lines_match_open(st, match) ==
    [st EXCEPT !.info.remaining_lines =
                   IF match.found THEN int_parse(match.group1).val ELSE @]

\* lines 79-81
more_lines_match(st, match) ==
    [st EXCEPT !.info.remaining_lines =
                   IF match.found THEN int_parse(match.group1).val ELSE @,
               !.in_preview_section = FALSE]

\* lines 78-81: the trailer branch
more_lines_branch(st, line) == more_lines_match(st, re_search_more(line))

\* the trailer is looked for before the preview line
entry_line_trailer_first(st, line) ==
    IF is_separator(line) THEN st
    ELSE IF str_startswith(line, "File: ")
         THEN [st EXCEPT !.info.filename = filename_of(line)]
    ELSE IF str_startswith(line, "Size: ") THEN size_branch(st, line)
    ELSE IF is_preview_heading(line) THEN [st EXCEPT !.in_preview_section = TRUE]
    ELSE IF is_more_lines(line) THEN more_lines_branch(st, line)
    ELSE IF is_preview_line(st, line)
         THEN [st EXCEPT !.info.preview_lines = Append(@, str_strip(line))]
    ELSE st

\* lines 55-81: one turn of the loop over the entry's lines
entry_line(st, line) ==
    IF is_separator(line) THEN st
    ELSE IF str_startswith(line, "File: ")
         THEN [st EXCEPT !.info.filename = filename_of(line)]
    ELSE IF str_startswith(line, "Size: ") THEN size_branch(st, line)
    ELSE IF is_preview_heading(line) THEN [st EXCEPT !.in_preview_section = TRUE]
    ELSE IF is_preview_line(st, line)
         THEN [st EXCEPT !.info.preview_lines = Append(@, str_strip(line))]
    ELSE IF is_more_lines(line) THEN more_lines_branch(st, line)
    ELSE st

RECURSIVE entry_loop(_, _)
\* line 55: the loop over the lines, in order; an exception ends it
entry_loop(st, lines) ==
    IF Len(lines) = 0 \/ st.exc # "none" THEN st
    ELSE IF Len(lines) = 1 THEN entry_line(st, lines[1])
    ELSE entry_loop(entry_loop(st, SubSeq(lines, 1, Len(lines) \div 2)),
                    SubSeq(lines, Len(lines) \div 2 + 1, Len(lines)))

\* parse_file_entry(entry_text): [exc, info], info being the dict returned when
\* exc = "none"
entry_result(st) == [exc |-> st.exc, info |-> st.info]

parse_file_entry(entry_text) ==
    entry_result(entry_loop([info |-> new_file_info, in_preview_section |-> FALSE,
                             exc |-> "none"],
                            str_split(str_strip(entry_text), "\n")))

-----------------------------------------------------------------------------
(* parse_text_content                                                      *)

\* the block is kept whatever its filename
keep_entry_unnamed(st, r) ==
    IF r.exc # "none" THEN [st EXCEPT !.exc = r.exc]
    ELSE [st EXCEPT !.file_entries = Append(@, r.info)]

\* a block whose name the list already has is dropped
keep_entry_once(st, r) ==
    IF r.exc # "none" THEN [st EXCEPT !.exc = r.exc]
    ELSE IF r.info.filename = ""
            \/ \E i \in 1..Len(st.file_entries) : st.file_entries[i].filename = r.info.filename
         THEN st
    ELSE [st EXCEPT !.file_entries = Append(@, r.info)]

\* lines 111-114 and 120-123: parse the entry collected so far and keep it when
\* it has a filename
\* lines 113-114 and 122-123: r is what parse_file_entry gave
keep_entry(st, r) ==
    IF r.exc # "none" THEN [st EXCEPT !.exc = r.exc]
    ELSE IF r.info.filename # "" THEN [st EXCEPT !.file_entries = Append(@, r.info)]
    ELSE st

flush_entry(st) ==
    IF st.exc # "none" \/ str_strip(st.current_entry) = "" THEN st
    ELSE keep_entry(st, parse_file_entry(st.current_entry))

\* line 115: the new entry starts with the 'File: ' line
start_entry(st, line) ==
    IF st.exc # "none" THEN st ELSE [st EXCEPT !.current_entry = line \o "\n"]

\* lines 108-117: one turn of the loop over the lines after the marker
content_line(st, line) ==
    IF str_startswith(line, "File: ") THEN start_entry(flush_entry(st), line)
    ELSE IF st.current_entry # ""
         THEN [st EXCEPT !.current_entry = @ \o line \o "\n"]
    ELSE st

RECURSIVE content_loop(_, _)
\* line 108: the loop over the lines, in order; an exception ends it
content_loop(st, lines) ==
    IF Len(lines) = 0 \/ st.exc # "none" THEN st
    ELSE IF Len(lines) = 1 THEN content_line(st, lines[1])
    ELSE content_loop(content_loop(st, SubSeq(lines, 1, Len(lines) \div 2)),
                      SubSeq(lines, Len(lines) \div 2 + 1, Len(lines)))

\* lines 119-125: the last entry, and the list returned
content_result(st) == [exc |-> st.exc, file_entries |-> st.file_entries]

\* lines 101-125, results_start being where the marker was found
parse_results(text, results_start) ==
    IF results_start = -1 THEN [exc |-> "none", file_entries |-> <<>>]
    ELSE content_result(
             flush_entry(
                 content_loop([file_entries |-> <<>>, current_entry |-> "",
                               exc |-> "none"],
                              str_split(slice_from(text, results_start), "\n"))))

\* parse_text_content(text): [exc, file_entries]
parse_text_content(text) == parse_results(text, str_find(text, "RESULTS"))

-----------------------------------------------------------------------------
(* generate_html                                                           *)
(*                                                                         *)
(* The document is kept as the sequence of its pieces, in the order the    *)
(* code appends them: a piece is either literal template text ("markup")   *)
(* or the value of one interpolated expression, named after what is        *)
(* interpolated.  The string returned is the concatenation of the pieces'  *)
(* text.  The inline style sheet and the indentation of the template are   *)
(* cut down; the elements and their order are the template's.              *)

piece(kind, text) == [kind |-> kind, text |-> text]

markup(text) == piece("markup", text)

\* lines 344-347 and 349-352: the leading integer of a label, 0 when the label
\* is empty, has no word (IndexError) or does not start with an integer
\* (ValueError)
int_or_zero(r) == IF r.ok THEN r.val ELSE 0

first_word_number(words) ==
    IF Len(words) = 0 THEN 0 ELSE int_or_zero(int_parse(words[1 + 0]))

label_number(label) ==
    IF label = "" THEN 0 ELSE first_word_number(str_split_ws(label))

\* lines 339-347
total_chars_of(entries) ==
    int_sum([ i \in 1..Len(entries) |-> label_number(entries[i].size) ])

\* the lines are counted from the size labels
total_lines_of_size(entries) ==
    int_sum([ i \in 1..Len(entries) |-> label_number(entries[i].size) ])

\* lines 340-352
total_lines_of(entries) ==
    int_sum([ i \in 1..Len(entries) |-> label_number(entries[i].lines_count) ])

RECURSIVE group_thousands(_)
group_thousands(n) ==
    IF n < 1000 THEN int_str(n)
    ELSE group_thousands(n \div 1000) \o ","
         \o int_str((n % 1000) \div 100) \o int_str((n % 100) \div 10)
         \o int_str(n % 10)

\* format(n, ',')
format_thousands(n) ==
    IF n < 0 THEN "-" \o group_thousands(0 - n) ELSE group_thousands(n)

\* lines 355-386: the head of the document and the statistics strip
head_pieces(title, now, total_files, total_chars, total_lines) ==
    << markup("<!DOCTYPE html><html lang=\"en\"><head><title>"),
       piece("title", title),
       markup("</title><style>...</style></head><body><div class=\"container\"><div class=\"header\"><h1>"),
       piece("title", title),
       markup("</h1><div class=\"subtitle\">Generated on "),
       piece("now", now),
       markup("</div></div><div class=\"stats\"><div class=\"stat-item\"><span class=\"stat-number\">"),
       piece("total_files", int_str(total_files)),
       markup("</span><span class=\"stat-label\">Files</span></div><div class=\"stat-item\"><span class=\"stat-number\">"),
       piece("total_chars", format_thousands(total_chars)),
       markup("</span><span class=\"stat-label\">Characters</span></div><div class=\"stat-item\"><span class=\"stat-number\">"),
       piece("total_lines", format_thousands(total_lines)),
       markup("</span><span class=\"stat-label\">Lines</span></div></div><div class=\"content\">") >>

\* lines 390-403: the head of one file entry
entry_head_pieces(entry) ==
    << markup("<div class=\"file-entry\"><div class=\"file-header\"><div class=\"file-title\">"),
       piece("filename", html_escape(entry.filename)),
       markup("</div><div class=\"file-meta\"><span class=\"meta-item\">"),
       piece("size", html_escape(entry.size)),
       markup("</span><span class=\"meta-item\">"),
       piece("lines_count", html_escape(entry.lines_count)),
       markup("</span></div></div><div class=\"preview-section\"><div class=\"preview-title\">Preview</div><div class=\"preview-lines\">") >>

\* lines 409-415: one preview line; a line without a colon adds nothing
preview_parts_pieces(parts) ==
    << markup("<div class=\"preview-line\"><span class=\"line-number\">"),
       piece("line_num", str_strip(parts[1 + 0])),
       markup(":</span>"),
       piece("content", html_escape(IF Len(parts) > 1 THEN parts[1 + 1] ELSE "")),
       markup("</div>") >>

preview_line_pieces(line) ==
    IF str_contains(line, ":") THEN preview_parts_pieces(str_split1(line, ":"))
    ELSE << >>

\* lines 407-415
preview_loop(lines) ==
    seq_concat([ i \in 1..Len(lines) |-> preview_line_pieces(lines[i]) ])

\* lines 406-419: the preview area
preview_pieces(entry) ==
    ( IF Len(entry.preview_lines) > 0 THEN preview_loop(entry.preview_lines)
      ELSE << markup("<div class=\"preview-line\">No preview available</div>") >> )
    \o << markup("</div>") >>

\* lines 422-427: the 'more lines' note and the end of the entry
entry_tail_pieces(entry) ==
    ( IF entry.remaining_lines > 0
      THEN << markup("<div class=\"remaining-lines\">+ "),
              piece("remaining_lines", int_str(entry.remaining_lines)),
              markup(" more lines...</div>") >>
      ELSE << >> )
    \o << markup("</div></div>") >>

\* lines 389-427: one file entry
entry_pieces(entry) ==
    entry_head_pieces(entry) \o preview_pieces(entry) \o entry_tail_pieces(entry)

\* line 389: the loop over the entries, in the order of the list
entries_loop(entries) ==
    seq_concat([ i \in 1..Len(entries) |-> entry_pieces(entries[i]) ])

\* lines 430-437
foot_pieces ==
    << markup("</div><div class=\"footer\">Report generated from markdown files analysis</div></div></body></html>") >>

\* generate_html(file_entries, title), the clock reading now
\* lines 355-439, the totals being computed
document_of(entries, title, now, totals) ==
    [html_doc |-> head_pieces(title, now, totals.total_files, totals.total_chars,
                              totals.total_lines)
                  \o entries_loop(entries) \o foot_pieces,
     stats |-> totals]

generate_html(entries, title, now) ==
    document_of(entries, title, now,
                [total_files |-> Len(entries),
                 total_chars |-> total_chars_of(entries),
                 total_lines |-> total_lines_of(entries)])

\* the string generate_html returns
document_text(pieces) == str_concat([ i \in 1..Len(pieces) |-> pieces[i].text ])

-----------------------------------------------------------------------------
(* convert_text_file_to_html and convert_dict_to_html                      *)

None == "<None>"

NoDoc == << >>

NoStats == [total_files |-> 0, total_chars |-> 0, total_lines |-> 0]

\* Path(path).with_suffix(suffix), for a path with a non-empty last component
\* the suffix of a file name, i being name.rfind('.')
suffix_of(name, i) ==
    IF 0 < i /\ i < Len(name) - 1 THEN slice_from(name, i) ELSE ""

name_suffix(name) == suffix_of(name, str_rfind(name, "."))

with_suffix(path, suffix) ==
    slice_to(path,
             Len(path) - Len(name_suffix(slice_from(path, str_rfind(path, "/") + 1))))
    \o suffix

json_char(c) ==
    CASE c = "\"" -> "\\\""
      [] c = "\\" -> "\\\\"
      [] c = "\n" -> "\\n"
      [] c = "\t" -> "\\t"
      [] c = "\r" -> "\\r"
      [] OTHER -> c

json_string_body(s) == str_concat([ i \in 1..Len(s) |-> json_char(SubSeq(s, i, i)) ])

json_value(v) == IF v = None THEN "null" ELSE "\"" \o json_string_body(v) \o "\""

json_item(item) ==
    "\"" \o json_string_body(item.path) \o "\": " \o json_value(item.text)

json_items(items) ==
    str_join([ i \in 1..Len(items) |-> json_item(items[i]) ], ", ")

\* json.dumps(file_contents) of a dict of path -> text or None, given as its
\* items in insertion order
json_dumps(items) == "{" \o json_items(items) \o "}"

-----------------------------------------------------------------------------
(* The inputs of the conversion calls                                      *)

\* the longest text, in lines
MaxLines == 4

\* the most items of a dict handed to convert_dict_to_html
MaxItems == 2

TextLines ==
    { "=== RESULTS ===",
      "File: a.md",
      "File: b File: c.md",
      "File:   ",
      "Size: 12 characters, 3 lines",
      "Size: 5 characters 2 lines" }

Texts ==
    UNION { { str_join(ls, "\n") : ls \in [1..n -> TextLines] } : n \in 0..MaxLines }

InputFiles == { "report.txt", "out/report" }

OutputFiles == { None, "page.html" }

DictPaths == { "a.md", "b.md" }

DictTexts == { None, "x", "RESULTS\nFile: a.md\nSize: 1 characters, 1 lines" }

\* the item lists of the dicts: no path twice
Dicts ==
    UNION { { d \in [1..n -> [path : DictPaths, text : DictTexts]] :
                \A i, j \in 1..n : i # j => d[i].path # d[j].path }
            : n \in 0..MaxItems }

Clock == { "January 01, 2026 at 09:00 AM", "June 30, 2026 at 11:59 PM" }

-----------------------------------------------------------------------------
(* The conversion as a state machine                                       *)

Init ==
    /\ pc = "start"
    /\ input_file = None
    /\ output_file = None
    /\ content = ""
    /\ entry_lines = << >>
    /\ entry_next = 0
    /\ in_preview_section = FALSE
    /\ file_info = new_file_info
    /\ file_entries = << >>
    /\ exc = "none"
    /\ html_doc = NoDoc
    /\ stats = NoStats
    /\ fs = {}
    /\ ret = None
    /\ given = [fn |-> "none", parts |-> << >>]
    /\ argv = << >>
    /\ directory = ""
    /\ md_files = << >>
    /\ printed = "none"

\* convert_text_file_to_html, lines 451-452: read_text_file returns the text
ReadTextFile ==
    /\ pc = "start"
    /\ \E f \in InputFiles, o \in OutputFiles, t \in Texts :
          /\ input_file' = f
          /\ output_file' = o
          /\ content' = t
    /\ pc' = "parse"
    /\ given' = [fn |-> "convert_text_file_to_html", parts |-> << >>]
    /\ UNCHANGED <<main_vars, entry_vars, file_entries, exc, out_vars>>

\* read_text_file, lines 28-29: the file cannot be read
ReadTextFileFails ==
    /\ pc = "start"
    /\ \E f \in InputFiles, o \in OutputFiles :
          /\ input_file' = f
          /\ output_file' = o
    /\ exc' = "Exception"
    /\ pc' = "raised"
    /\ given' = [fn |-> "convert_text_file_to_html", parts |-> << >>]
    /\ UNCHANGED <<main_vars, content, entry_vars, file_entries, out_vars>>

\* convert_dict_to_html, lines 493-495
DumpDict ==
    /\ pc = "start"
    /\ \E d \in Dicts, o \in OutputFiles :
          /\ content' = json_dumps(d)
          /\ output_file' = o
          /\ given' = [fn |-> "convert_dict_to_html", parts |-> d]
    /\ pc' = "parse"
    /\ UNCHANGED <<main_vars, input_file, entry_vars, file_entries, exc, out_vars>>

\* lines 456 and 499: file_entries = parse_text_content(content)
ParseTextContent ==
    /\ pc = "parse"
    /\ \E r \in { parse_text_content(content) } :
          IF r.exc # "none"
          THEN /\ exc' = r.exc
               /\ pc' = "raised"
               /\ UNCHANGED file_entries
          ELSE /\ file_entries' = r.file_entries
               /\ pc' = "parsed"
               /\ UNCHANGED exc
    /\ UNCHANGED <<main_vars, call_vars, content, entry_vars, out_vars, given>>

\* lines 458-460 and 501-503: nothing was found
NoEntries ==
    /\ pc = "parsed"
    /\ Len(file_entries) = 0
    /\ ret' = None
    /\ pc' = "done"
    /\ UNCHANGED <<main_vars, call_vars, content, entry_vars, file_entries, exc, html_doc,
                   stats, fs, given>>

\* the document is rendered without looking at the list
GenerateHtml_unguarded ==
    /\ pc = "parsed"
    /\ \E now \in Clock :
          \E r \in { generate_html(file_entries, "Markdown Files Report", now) } :
             /\ html_doc' = r.html_doc
             /\ stats' = r.stats
    /\ pc' = "generated"
    /\ UNCHANGED <<main_vars, call_vars, content, entry_vars, file_entries, exc, fs, ret, given>>

\* lines 468 and 511: html_content = generate_html(file_entries, ...)
GenerateHtml ==
    /\ pc = "parsed"
    /\ Len(file_entries) > 0
    /\ \E now \in Clock :
          \E r \in { generate_html(file_entries, "Markdown Files Report", now) } :
             /\ html_doc' = r.html_doc
             /\ stats' = r.stats
    /\ pc' = "generated"
    /\ UNCHANGED <<main_vars, call_vars, content, entry_vars, file_entries, exc, fs, ret, given>>

\* lines 471-473 and 514-515
output_path ==
    IF output_file # None THEN output_file
    ELSE IF given.fn = "convert_dict_to_html" THEN "index.html"
    ELSE with_suffix(input_file, ".html")

\* lines 477-481 and 519-523: the file is written and its path returned
WriteHtml ==
    /\ pc = "generated"
    /\ fs' = fs \cup { [path |-> output_path, doc |-> document_text(html_doc)] }
    /\ ret' = output_path
    /\ pc' = "done"
    /\ UNCHANGED <<main_vars, call_vars, content, entry_vars, file_entries, exc, html_doc,
                   stats, given>>

Next ==
    \/ ReadTextFile
    \/ ReadTextFileFails
    \/ DumpDict
    \/ ParseTextContent
    \/ NoEntries
    \/ GenerateHtml
    \/ WriteHtml

Spec == Init /\ [][Next]_vars

-----------------------------------------------------------------------------
(* What the text of a call holds, read off the text itself                 *)

\* the text from the marker on, "" when the text has no marker
results_text(text) ==
    IF str_find(text, "RESULTS") = -1 THEN ""
    ELSE slice_from(text, str_find(text, "RESULTS"))

\* the lines that start with 'File: ' from the marker on, in order
file_lines(text) ==
    SelectSeq(str_split(results_text(text), "\n"),
              LAMBDA l : str_startswith(l, "File: "))

\* the 'filename' of every record, in order
filenames(entries) == [ i \in 1..Len(entries) |-> entries[i].filename ]

\* the non-empty names among names, in order
named(names) == SelectSeq(names, LAMBDA n : n # "")

\* the text of the pieces of one kind, in order
pieces_of(doc, kind) ==
    [ i \in 1..Len(SelectSeq(doc, LAMBDA p : p.kind = kind))
        |-> SelectSeq(doc, LAMBDA p : p.kind = kind)[i].text ]

\* how many file-entry blocks the document has
entry_blocks(doc) ==
    Len(SelectSeq(doc, LAMBDA p : p.kind = "markup"
                                  /\ str_contains(p.text, "<div class=\"file-entry\">")))

\* the text with everything between the marker line and the first 'File: '
\* line taken out
first_file_line(lines) == Min({ i \in 1..Len(lines) : str_startswith(lines[i], "File: ") })

without_preamble_of(lines) ==
    IF \A i \in 1..Len(lines) : ~str_startswith(lines[i], "File: ")
    THEN lines[1]
    ELSE str_join(<<lines[1]>> \o SubSeq(lines, first_file_line(lines), Len(lines)), "\n")

without_preamble(text) == without_preamble_of(str_split(results_text(text), "\n"))

-----------------------------------------------------------------------------
(* C1 *)

\* C1: parse_text_content returns a list for every text and never raises,
\* also for a 'Size: ' line that holds 'characters' and 'lines' and no comma.
C1_ParserNeverRaises ==
    given.fn = "convert_text_file_to_html" /\ pc = "raised" => exc = "Exception"

-----------------------------------------------------------------------------
(* C4 *)

\* C4: every record parse_text_content returns has a non-empty filename; the
\* list is empty when the text has no 'RESULTS' or no line starting with
\* 'File: ' after it; and the text before the first 'File: ' line after the
\* marker adds nothing to any record.
C4_RecordsHaveFilenames ==
    pc = "parsed" =>
       /\ \A i \in 1..Len(file_entries) : file_entries[i].filename # ""
       /\ ( str_find(content, "RESULTS") = -1 \/ Len(file_lines(content)) = 0
              => file_entries = << >> )
       /\ ( str_find(content, "RESULTS") # -1
              => file_entries = parse_text_content(without_preamble(content)).file_entries )

\* a text with a marker, lines before the first 'File: ' line that would fill
\* fields of a record, a block without a name, and one record returned
C4_Witness ==
    /\ pc = "parsed"
    /\ content = "=== RESULTS ===\nSize: 12 characters, 3 lines\nFile:   \nFile: a.md"
    /\ Len(file_entries) = 1
    /\ file_entries[1].size = ""

-----------------------------------------------------------------------------
(* C7 *)

\* C7: the records come in the order of their 'File: ' lines, one for every
\* block with a name, two for two blocks of the same name, and the document
\* has one file-entry block for every record, in the order of the list.
C7_OrderKept ==
    /\ pc = "parsed" =>
          filenames(file_entries)
             = named([ i \in 1..Len(file_lines(content)) |-> filename_of(file_lines(content)[i]) ])
    /\ pc = "generated" =>
          /\ entry_blocks(html_doc) = Len(file_entries)
          /\ pieces_of(html_doc, "filename")
                = [ i \in 1..Len(file_entries) |-> html_escape(file_entries[i].filename) ]

\* two blocks of the same name around a block of another name, rendered
C7_Witness ==
    /\ pc = "generated"
    /\ filenames(file_entries) = <<"a.md", "b c.md", "a.md">>
    /\ entry_blocks(html_doc) = 3

-----------------------------------------------------------------------------
(* C8 *)

\* C8: when parsing yields no record, convert_text_file_to_html and
\* convert_dict_to_html return None, render no document and write no file.
C8_NothingWithoutRecords ==
    /\ pc = "done" /\ Len(file_entries) = 0 =>
          ret = None /\ html_doc = NoDoc /\ fs = {}
    /\ html_doc # NoDoc \/ fs # {} => Len(file_entries) > 0
    /\ pc = "done" /\ given.fn = "convert_dict_to_html" => ret = None /\ fs = {}

\* a text with the marker and no named block, the call over
C8_Witness ==
    /\ pc = "done"
    /\ given.fn = "convert_text_file_to_html"
    /\ str_contains(content, "RESULTS")
    /\ Len(file_lines(content)) > 0
    /\ file_entries = << >>
    /\ ret = None

-----------------------------------------------------------------------------
(* C10 *)

\* C10: the filename of a record is what follows the leading 'File: ' of the
\* block's 'File: ' line, trimmed, also when that remainder holds 'File: '.
C10_FilenameIsRemainder ==
    pc = "parsed" =>
       filenames(file_entries)
          = named([ i \in 1..Len(file_lines(content))
                      |-> str_strip(slice_from(file_lines(content)[i], Len("File: "))) ])

-----------------------------------------------------------------------------
(* The lines of a report, as read_markdown.print_content writes them       *)

\* the width of the rule around the header of a file
RuleWidth == 50

dash_rule == str_concat([ i \in 1..RuleWidth |-> "-" ])

file_line(file_path) == "File: " \o file_path

size_line(char_count, line_count) ==
    "Size: " \o int_str(char_count) \o " characters, " \o int_str(line_count) \o " lines"

preview_heading == "Preview (first 5 lines):"

\* the preview line of lines[i], i counted from 0
preview_line(i, text) == "  " \o int_str(i + 1) \o ": " \o text

more_lines_line(n) == "  ... (" \o int_str(n) \o " more lines)"

-----------------------------------------------------------------------------
(* parse_file_entry, one line at a time                                    *)

\* the longest block, in lines
MaxEntryLines == 4

\* the lines a block is made of: what kind of line each is, and the N of the
\* '(N more lines)' its text holds, -1 when it holds none
EntryLines ==
    { [kind |-> "file",    text |-> file_line("a.md"),                     marker |-> -1],
      [kind |-> "rule",    text |-> dash_rule,                             marker |-> -1],
      [kind |-> "heading", text |-> preview_heading,                       marker |-> -1],
      [kind |-> "preview", text |-> preview_line(0, "x"),                  marker |-> -1],
      [kind |-> "preview", text |-> preview_line(1, "... (7 more lines)"), marker |-> 7],
      [kind |-> "more",    text |-> more_lines_line(12),                   marker |-> 12] }

Entries == UNION { [1..n -> EntryLines] : n \in 0..MaxEntryLines }

\* the text of a block, as parse_text_content puts it together (lines 113-115)
entry_text_of(block) == str_concat([ i \in 1..Len(block) |-> block[i].text \o "\n" ])

\* lines 41-53
CallParseFileEntry ==
    /\ pc = "start"
    /\ \E block \in Entries :
          /\ content' = entry_text_of(block)
          /\ entry_lines' = str_split(str_strip(entry_text_of(block)), "\n")
          /\ given' = [fn |-> "parse_file_entry", parts |-> block]
    /\ entry_next' = 1
    /\ file_info' = new_file_info
    /\ in_preview_section' = FALSE
    /\ pc' = "entry_loop"
    /\ UNCHANGED <<main_vars, call_vars, file_entries, exc, out_vars>>

\* lines 55-81: one turn of the loop
EntryLine ==
    /\ pc = "entry_loop"
    /\ entry_next <= Len(entry_lines)
    /\ \E st \in { entry_line([info |-> file_info,
                               in_preview_section |-> in_preview_section,
                               exc |-> "none"],
                              entry_lines[entry_next]) } :
          /\ file_info' = st.info
          /\ in_preview_section' = st.in_preview_section
          /\ exc' = st.exc
          /\ pc' = IF st.exc # "none" THEN "raised" ELSE "entry_loop"
    /\ entry_next' = entry_next + 1
    /\ UNCHANGED <<main_vars, call_vars, content, entry_lines, file_entries, out_vars, given>>

\* line 83: return file_info
EntryReturn ==
    /\ pc = "entry_loop"
    /\ entry_next > Len(entry_lines)
    /\ pc' = "entry_done"
    /\ UNCHANGED <<main_vars, call_vars, content, entry_vars, file_entries, exc, out_vars, given>>

NextEntry ==
    \/ CallParseFileEntry
    \/ EntryLine
    \/ EntryReturn

SpecEntry == Init /\ [][NextEntry]_vars

\* the kinds of the lines of the block, in order
kinds == [ i \in 1..Len(given.parts) |-> given.parts[i].kind ]

\* the loop is at a line of the block
at_line == pc = "entry_loop" /\ entry_next <= Len(given.parts)

\* the line the loop is at holds '... (', 'more lines)' and a '(N more lines)'
at_marker == at_line /\ given.parts[entry_next].marker >= 0

\* the line the loop is at is taken by a branch that comes before the trailer's
taken_earlier ==
    \/ given.parts[entry_next].kind \in {"rule", "file", "heading"}
    \/ in_preview_section /\ given.parts[entry_next].kind = "preview"

\* a line holding a '(N more lines)' has been read
marker_read ==
    \E i \in 1..(entry_next - 1) : i <= Len(given.parts) /\ given.parts[i].marker >= 0

-----------------------------------------------------------------------------
(* C5 *)

\* the block is header lines, the heading, k preview lines and the trailer
preview_block ==
    /\ given.fn = "parse_file_entry"
    /\ Len(kinds) >= 2
    /\ kinds[Len(kinds)] = "more"
    /\ \E h \in 1..(Len(kinds) - 1) :
          /\ kinds[h] = "heading"
          /\ \A i \in 1..(h - 1) : kinds[i] \in {"file", "rule"}
          /\ \A i \in (h + 1)..(Len(kinds) - 1) : kinds[i] = "preview"

\* the preview lines of the block, trimmed, in order
previews_given ==
    [ i \in 1..Len(SelectSeq(given.parts, LAMBDA d : d.kind = "preview"))
        |-> str_strip(SelectSeq(given.parts, LAMBDA d : d.kind = "preview")[i].text) ]

\* C5: a block with a 'Preview (first' heading, then k digit-colon lines
\* whatever their content, then the trailer '... (R more lines)' gives a
\* record whose preview_lines are those k lines, trimmed, in order, and whose
\* remaining_lines is R; neither the heading nor the trailer is stored.
C5_PreviewKept ==
    pc = "entry_done" /\ preview_block =>
       /\ file_info.preview_lines = previews_given
       /\ file_info.remaining_lines = given.parts[Len(given.parts)].marker

\* two preview lines, the second with the words of a trailer in its content
C5_Witness ==
    /\ pc = "entry_done"
    /\ kinds = <<"heading", "preview", "preview", "more">>
    /\ file_info.preview_lines = <<"1: x", "2: ... (7 more lines)">>
    /\ file_info.remaining_lines = 12

-----------------------------------------------------------------------------
(* C9 *)

\* C9, as stated: a line holding '... (', 'more lines)' and '(N more lines)'
\* sets remaining_lines to N and leaves the preview section, no digit-colon
\* line after it in the block is appended, and remaining_lines is not 0 only
\* if such a line was read.
C9_AsStated ==
    /\ [][at_marker =>
            /\ file_info'.remaining_lines = given.parts[entry_next].marker
            /\ in_preview_section' = FALSE]_vars
    /\ [][pc = "entry_loop" /\ marker_read =>
            file_info'.preview_lines = file_info.preview_lines]_vars
    /\ [](given.fn = "parse_file_entry" /\ file_info.remaining_lines # 0 => marker_read)

\* C9, amended: such a line does so when no earlier branch takes it, that is
\* when it is no separator, 'File: ' line or heading and no digit-colon line
\* read in the preview section (which is appended as a preview line); outside
\* the preview section no line is appended, until a later heading opens it
\* again; and remaining_lines is not 0 only if such a line was read.
C9_MarkerEndsPreview ==
    /\ [][at_marker /\ ~taken_earlier =>
            /\ file_info'.remaining_lines = given.parts[entry_next].marker
            /\ in_preview_section' = FALSE]_vars
    /\ [][pc = "entry_loop" /\ ~in_preview_section =>
            file_info'.preview_lines = file_info.preview_lines]_vars
    /\ [](given.fn = "parse_file_entry" /\ file_info.remaining_lines # 0 => marker_read)

\* a trailer after one preview line, and a digit-colon line after the trailer
C9_Witness ==
    /\ pc = "entry_done"
    /\ kinds = <<"heading", "preview", "more", "preview">>
    /\ Len(file_info.preview_lines) = 1
    /\ file_info.remaining_lines = 12
    /\ ~in_preview_section

-----------------------------------------------------------------------------
(* generate_html on records of any content                                 *)

\* the most records handed to generate_html
MaxRecords == 2

\* the most preview lines of a record
MaxPreview == 2

\* size labels, each with the number it starts with, 0 when it starts with none
SizeLabels ==
    { [text |-> "",              n |-> 0],
      [text |-> "   ",           n |-> 0],
      [text |-> "abc",           n |-> 0],
      [text |-> "characters 12", n |-> 0],
      [text |-> "12 characters", n |-> 12] }

LinesLabels ==
    { [text |-> "",        n |-> 0],
      [text |-> "x lines", n |-> 0],
      [text |-> "3 lines", n |-> 3] }

\* records that differ in their labels, each with what it adds to the totals
LabelRecords ==
    { [entry |-> [filename |-> "a.md", size |-> s.text, lines_count |-> l.text,
                  preview_lines |-> << >>, remaining_lines |-> 0],
       chars |-> s.n, lines |-> l.n] : s \in SizeLabels, l \in LinesLabels }

PreviewTexts == { "1: <b>x</b>", "<i>7</i>: & \"q\"", "no colon <u>" }

Previews == UNION { [1..n -> PreviewTexts] : n \in 0..MaxPreview }

\* records that differ in their text
TextRecords ==
    { [entry |-> [filename |-> "<script>alert(1)</script>.md", size |-> "1 characters",
                  lines_count |-> "1 lines", preview_lines |-> p, remaining_lines |-> r],
       chars |-> 1, lines |-> 1] : p \in Previews, r \in {0, 3} }

RenderInputs ==
    UNION { [1..n -> LabelRecords] : n \in 0..MaxRecords }
       \cup { <<t>> : t \in TextRecords }

\* generate_html(file_entries, title), lines 127-439
CallGenerateHtml ==
    /\ pc = "start"
    /\ \E records \in RenderInputs, now \in Clock :
          /\ given' = [fn |-> "generate_html", parts |-> records]
          /\ file_entries' = [ i \in 1..Len(records) |-> records[i].entry ]
          /\ \E r \in { generate_html([ i \in 1..Len(records) |-> records[i].entry ],
                                      "Markdown Files Report", now) } :
                /\ html_doc' = r.html_doc
                /\ stats' = r.stats
    /\ pc' = "generated"
    /\ UNCHANGED <<main_vars, call_vars, content, entry_vars, exc, fs, ret>>

NextRender == CallGenerateHtml

SpecRender == Init /\ [][NextRender]_vars

-----------------------------------------------------------------------------
(* C2 *)

\* the kinds of the pieces that hold text of a record
RecordKinds == {"filename", "size", "lines_count", "line_num", "content"}

\* C2: every piece of record text in the document, the part of a preview line
\* before its first colon too, is escaped: none holds a '<' or a '>'.
C2_RecordTextEscaped ==
    pc = "generated" =>
       \A i \in 1..Len(html_doc) :
          html_doc[i].kind \in RecordKinds
             => ~str_contains(html_doc[i].text, "<") /\ ~str_contains(html_doc[i].text, ">")

-----------------------------------------------------------------------------
(* C6 *)

\* C6: generate_html returns a document for records of any content; a label
\* that is empty, blank or does not start with a number adds 0 to its total,
\* and what the other records add is still summed.
C6_UnparsableLabelsAddZero ==
    pc = "generated" /\ given.fn = "generate_html" =>
       /\ html_doc # NoDoc
       /\ exc = "none"
       /\ stats.total_files = Len(given.parts)
       /\ stats.total_chars = int_sum([ i \in 1..Len(given.parts) |-> given.parts[i].chars ])
       /\ stats.total_lines = int_sum([ i \in 1..Len(given.parts) |-> given.parts[i].lines ])

\* a record with labels that hold no number, then a record with labels that do
C6_Witness ==
    /\ pc = "generated"
    /\ given.fn = "generate_html"
    /\ Len(file_entries) = 2
    /\ file_entries[1].size = "abc" /\ file_entries[1].lines_count = "x lines"
    /\ file_entries[2].size = "12 characters" /\ file_entries[2].lines_count = "3 lines"
    /\ stats = [total_files |-> 2, total_chars |-> 12, total_lines |-> 3]

-----------------------------------------------------------------------------
(* A report of blocks with a 'File: ' line and a 'Size: ' line             *)

\* the most blocks of a report
MaxBlocks == 2

ReportPaths == { "a.md", "docs/File: b.md", "File: " }

CharCounts == { 0, 1234 }

LineCounts == { 7, 12 }

Reports ==
    UNION { [1..n -> [path : ReportPaths, chars : CharCounts, lines : LineCounts]]
            : n \in 0..MaxBlocks }

report_text(blocks) ==
    "RESULTS"
       \o str_concat([ i \in 1..Len(blocks) |->
                         "\n" \o file_line(blocks[i].path)
                              \o "\n" \o size_line(blocks[i].chars, blocks[i].lines) ])

\* convert_text_file_to_html, lines 451-452: the text read is such a report
ReadReport ==
    /\ pc = "start"
    /\ \E blocks \in Reports :
          /\ content' = report_text(blocks)
          /\ given' = [fn |-> "convert_text_file_to_html", parts |-> blocks]
    /\ input_file' = "report.txt"
    /\ output_file' = None
    /\ pc' = "parse"
    /\ UNCHANGED <<main_vars, entry_vars, file_entries, exc, out_vars>>

NextReport ==
    \/ ReadReport
    \/ ParseTextContent
    \/ NoEntries
    \/ GenerateHtml
    \/ WriteHtml

SpecReport == Init /\ [][NextReport]_vars

-----------------------------------------------------------------------------
(* C3 *)

\* C3: for a report of a marker and blocks with a 'File: <path>' line and a
\* 'Size: N characters, M lines' line, total_files is the number of blocks,
\* total_chars the sum of the N and total_lines the sum of the M.
C3_TotalsOfReport ==
    pc = "generated" /\ Len(given.parts) > 0 =>
       /\ stats.total_files = Len(given.parts)
       /\ stats.total_chars = int_sum([ i \in 1..Len(given.parts) |-> given.parts[i].chars ])
       /\ stats.total_lines = int_sum([ i \in 1..Len(given.parts) |-> given.parts[i].lines ])

-----------------------------------------------------------------------------
(* C11 *)

\* how many markup pieces of the document are the given text
markup_count(doc, text) ==
    Len(SelectSeq(doc, LAMBDA p : p.kind = "markup" /\ p.text = text))

\* the preview lines of all the records, in order
all_preview_lines(entries) ==
    seq_concat([ i \in 1..Len(entries) |-> entries[i].preview_lines ])

\* the part of a preview line before its first colon, trimmed, the whole line
\* when it has no colon
line_prefix(line) ==
    IF str_contains(line, ":") THEN str_strip(slice_to(line, str_find(line, ":")))
    ELSE str_strip(line)

\* C11: the preview area of every record is not empty: it holds the
\* placeholder 'No preview available' exactly for a record without preview
\* lines, and otherwise one preview-line element for every preview line, in
\* order, the line number in an element of its own; the 'more lines' note is
\* there exactly for a record with remaining_lines > 0.
C11_PreviewAreaFilled ==
    pc = "generated" =>
       /\ markup_count(html_doc, "<div class=\"preview-line\">No preview available</div>")
             = Len(SelectSeq(file_entries, LAMBDA e : Len(e.preview_lines) = 0))
       /\ markup_count(html_doc, "<div class=\"preview-line\"><span class=\"line-number\">")
             = Len(all_preview_lines(file_entries))
       /\ pieces_of(html_doc, "line_num")
             = [ i \in 1..Len(all_preview_lines(file_entries))
                   |-> line_prefix(all_preview_lines(file_entries)[i]) ]
       /\ markup_count(html_doc, "<div class=\"remaining-lines\">+ ")
             = Len(SelectSeq(file_entries, LAMBDA e : e.remaining_lines > 0))

-----------------------------------------------------------------------------
(* main                                                                    *)

\* the most arguments on the command line, the script's name not counted
MaxArgs == 3

\* what an argument can be
Args == { "docs", "empty", "missing", "report.txt", "page.html" }

\* sys.argv: the script's name and the arguments
Argvs == UNION { { <<"main.py">> \o a : a \in [1..n -> Args] } : n \in 0..MaxArgs }

\* os.path.exists and os.path.isdir
Existing == { ".", "docs", "empty", "report.txt" }

Directories == { ".", "docs", "empty" }

\* what glob('*.md') can find in a directory
MdFilesIn(dir) ==
    IF dir = "docs" THEN { <<"docs/a.md">> }
    ELSE IF dir = "." THEN { << >>, <<"README.md">> }
    ELSE { << >> }

\* what the input file can hold
MainTexts ==
    { "",
      "RESULTS\nFile: a.md\nSize: 12 characters, 3 lines",
      "RESULTS\nFile: a.md\nSize: 5 characters 2 lines" }

\* read_markdown.get_path, lines 9-22: None when the directory given does not
\* exist or is no directory
get_path ==
    IF Len(argv) > 2
    THEN ( IF argv[1 + 1] \notin Existing THEN None
           ELSE IF argv[1 + 1] \notin Directories THEN None
           ELSE argv[1 + 1] )
    ELSE "."

\* the command line
CallMain ==
    /\ pc = "start"
    /\ \E a \in Argvs : argv' = a
    /\ given' = [fn |-> "main", parts |-> << >>]
    /\ pc' = "main"
    /\ UNCHANGED <<directory, md_files, printed, call_vars, content, entry_vars,
                   file_entries, exc, out_vars>>

\* main.py, line 10
GetPath ==
    /\ pc = "main"
    /\ directory' = get_path
    /\ pc' = "find"
    /\ UNCHANGED <<argv, md_files, printed, call_vars, content, entry_vars,
                   file_entries, exc, out_vars, given>>

\* main.py, lines 11-32: os.path.abspath(None) is a TypeError; without
\* markdown files main prints the usage and returns; with them it reads and
\* prints them
FindMarkdownFiles ==
    /\ pc = "find"
    /\ IF directory = None
       THEN /\ exc' = "TypeError"
            /\ pc' = "main_raised"
            /\ UNCHANGED <<md_files, printed>>
       ELSE \E found \in MdFilesIn(directory) :
               /\ md_files' = found
               /\ printed' = IF Len(found) = 0 THEN "usage" ELSE printed
               /\ pc' = IF Len(found) = 0 THEN "main_done" ELSE "args"
               /\ UNCHANGED exc
    /\ UNCHANGED <<argv, directory, call_vars, content, entry_vars, file_entries,
                   out_vars, given>>

\* main.py, lines 41-50: sys.argv[2] and sys.argv[3] past the end of the list
\* are an IndexError
ReadArgs ==
    /\ pc = "args"
    /\ IF Len(argv) < 2
       THEN /\ printed' = "usage"
            /\ pc' = "main_done"
            /\ UNCHANGED <<call_vars, exc>>
       ELSE IF Len(argv) < 2 + 1 \/ (Len(argv) > 2 /\ Len(argv) < 3 + 1)
       THEN /\ exc' = "IndexError"
            /\ pc' = "main_raised"
            /\ UNCHANGED <<call_vars, printed>>
       ELSE /\ input_file' = argv[2 + 1]
            /\ output_file' = IF Len(argv) > 2 THEN argv[3 + 1] ELSE None
            /\ printed' = IF argv[2 + 1] \notin Existing THEN "error" ELSE printed
            /\ pc' = IF argv[2 + 1] \notin Existing THEN "main_done" ELSE "convert"
            /\ UNCHANGED exc
    /\ UNCHANGED <<argv, directory, md_files, content, entry_vars, file_entries,
                   out_vars, given>>

\* main.py, line 54, and convert_text_file_to_html, lines 451-452: a
\* directory cannot be read as a file
MainConvert ==
    /\ pc = "convert"
    /\ IF input_file \in Directories
       THEN /\ exc' = "Exception"
            /\ pc' = "raised"
            /\ UNCHANGED content
       ELSE /\ \E t \in MainTexts : content' = t
            /\ pc' = "parse"
            /\ UNCHANGED exc
    /\ UNCHANGED <<main_vars, call_vars, entry_vars, file_entries, out_vars, given>>

\* main.py, line 55: the call returned
MainConverted ==
    /\ pc = "done"
    /\ given.fn = "main"
    /\ printed' = "complete"
    /\ pc' = "main_done"
    /\ UNCHANGED <<argv, directory, md_files, call_vars, content, entry_vars,
                   file_entries, exc, out_vars, given>>

\* main.py, lines 56-57: except Exception
MainCaught ==
    /\ pc = "raised"
    /\ given.fn = "main"
    /\ printed' = "error"
    /\ pc' = "main_done"
    /\ UNCHANGED <<argv, directory, md_files, call_vars, content, entry_vars,
                   file_entries, exc, out_vars, given>>

NextMain ==
    \/ CallMain
    \/ GetPath
    \/ FindMarkdownFiles
    \/ ReadArgs
    \/ MainConvert
    \/ ParseTextContent
    \/ NoEntries
    \/ GenerateHtml
    \/ WriteHtml
    \/ MainConverted
    \/ MainCaught

SpecMain == Init /\ [][NextMain]_vars

-----------------------------------------------------------------------------
(* C12 *)

\* C12: whatever the number of arguments, main ends with a usage or error
\* message or with the call of convert_text_file_to_html, never with an
\* exception of its own; the output file is None when its argument is absent.
C12_MainEndsCleanly ==
    /\ pc # "main_raised"
    /\ pc = "main_done" => printed \in {"usage", "error", "complete"}
    /\ pc = "convert" /\ Len(argv) < 3 + 1 => output_file = None

====
